---- MODULE Spec2Model ----
(***************************************************************************)
(* Generator protocols of Chap4_Comprehensions_and_Generators.py           *)
(* (Items 30-35).  The file is a script of independent snippets; `item`    *)
(* says which snippet is being driven, and every snippet keeps its objects *)
(* in a record of its own.  A generator object is a record whose pc field  *)
(* is the yield it is paused at ("created" before the first resumption,    *)
(* "done" once it has returned or raised).                                 *)
(***************************************************************************)
EXTENDS Integers, Sequences, FiniteSets, TLC

\* ------------------------------------------------------------------ bounds
\* largest period handed to timer(period) / Timer(period)
MaxPeriod == 3
\* how many times Reset may be thrown / reset() called in one run
MaxResets == 2
\* how many iterations are started over one Timer object
MaxIters == 3
\* longest sequence of check_for_reset() results handed to run()
MaxPolls == 3
\* largest number of points handed to wave_modulating(steps), beside the 12 of
\* the snippet's own call
MaxSteps == 4
\* longest list of amplitudes handed to complex_wave_cascading
MaxAmplitudes == 13
\* how many calls (next or throw) are made on one my_generator of Item 35
MaxCalls == 5
\* most lines of my_numbers.txt
MaxLines == 3
\* how many iterators are taken from one ReadVisits
MaxIterators == 2
\* the longest text indexed
MaxText == 4
\* the largest operand divided, in absolute value
MaxOperand == 2

\* ------------------------------------------------------- python values
PyNone == [t |-> "None", n |-> 0, s |-> ""]
PyInt(n) == [t |-> "int", n |-> n, s |-> ""]
PyStr(s) == [t |-> "str", n |-> 0, s |-> s]
\* a local name no assignment has bound yet
Unbound == [t |-> "unbound", n |-> 0, s |-> ""]

\* the outcome of one call on a generator: a yielded value or a raised exception
Yield(v) == [kind |-> "yield", val |-> v, exc |-> ""]
Raise(e) == [kind |-> "raise", val |-> PyNone, exc |-> e]
NoCall == [kind |-> "nocall", val |-> PyNone, exc |-> ""]

StopIteration == Raise("StopIteration")

\* period-1, period-2, ..., 0
Countdown(period) == [i \in 1..period |-> PyInt(period - i)]

IsPrefix(s, t) == Len(s) <= Len(t) /\ \A i \in 1..Len(s) : s[i] = t[i]

\* ------------------------------------------------ Item 34: my_generator
\* the generator object right after the call my_generator()
my_generator == [pc |-> "created", received |-> Unbound]

\* the yield expression if the sent value were dropped
YieldAlwaysNone(sent) == PyNone

\* the value of the expression `yield 1` when the generator is resumed
yield_expression(sent) == sent

\* the generator resumed with `sent` as the value of the yield it is paused at
my_generator_resume(g, sent) ==
    CASE g.pc = "created" -> [gen |-> [g EXCEPT !.pc = "yield 1"], out |-> Yield(PyInt(1))]
      [] g.pc = "yield 1" ->
            [gen |-> [g EXCEPT !.pc = "done", !.received = yield_expression(sent)],
             out |-> StopIteration]
      [] g.pc = "done" -> [gen |-> g, out |-> StopIteration]

\* next(it) resumes with None
my_generator_next(g) == my_generator_resume(g, PyNone)

\* it.send(value): a generator that has not started takes None only, and is
\* left as it was by the TypeError
my_generator_send(g, value) ==
    IF g.pc = "created" /\ value # PyNone
    THEN [gen |-> g, out |-> Raise("TypeError")]
    ELSE my_generator_resume(g, value)

\* ---------------------------------------------- Item 34: wave_modulating
\* math.sin(step * 2 * math.pi / steps) in thousandths, for steps in 1..12
SinTable ==
    << <<0>>,
       <<0, 0>>,
       <<0, 866, -866>>,
       <<0, 1000, 0, -1000>>,
       <<0, 951, 588, -588, -951>>,
       <<0, 866, 866, 0, -866, -866>>,
       <<0, 782, 975, 434, -434, -975, -782>>,
       <<0, 707, 1000, 707, 0, -707, -1000, -707>>,
       <<0, 643, 985, 866, 342, -342, -866, -985, -643>>,
       <<0, 588, 951, 951, 588, 0, -588, -951, -951, -588>>,
       <<0, 541, 910, 990, 756, 282, -282, -756, -990, -910, -541>>,
       <<0, 500, 866, 1000, 866, 500, 0, -500, -866, -1000, -866, -500>> >>

\* fraction = math.sin(step * step_size), step_size = 2 * math.pi / steps
fraction(step, steps) == SinTable[steps][(step % steps) + 1]

\* the output if the step were taken one ahead
OutputOfNextStep(amplitude, step, steps) == amplitude * fraction(step + 1, steps)

\* output = amplitude * fraction, in thousandths
wave_output(amplitude, step, steps) == amplitude * fraction(step, steps)

\* the steps of the snippet's own call, wave_modulating(12)
ModulatingSteps == 12

\* the amplitudes the snippets send
Amplitudes == {2, 7, 10}

\* the generator object right after the call wave_modulating(steps)
wave_modulating(steps) ==
    [pc |-> "created", steps |-> steps, step |-> 0, amplitude |-> Unbound]

\* the for loop of wave_modulating entered at its head with `step` next and the
\* amplitude just received: the next output is yielded, or the loop is over
wave_modulating_loop(g, step, amplitude) ==
    IF step >= g.steps
    THEN [gen |-> [g EXCEPT !.pc = "done", !.amplitude = amplitude],
          out |-> StopIteration]
    ELSE IF amplitude.t # "int"
    THEN [gen |-> [g EXCEPT !.pc = "done", !.amplitude = amplitude, !.step = step],
          out |-> Raise("TypeError")]
    ELSE [gen |-> [g EXCEPT !.pc = "yield output", !.amplitude = amplitude,
                            !.step = step],
          out |-> Yield(PyInt(wave_output(amplitude.n, step, g.steps)))]

\* it.send(value)
wave_modulating_send(g, value) ==
    CASE g.pc = "created" /\ value # PyNone -> [gen |-> g, out |-> Raise("TypeError")]
      [] g.pc = "created" /\ value = PyNone ->
            IF g.steps = 0
            THEN [gen |-> [g EXCEPT !.pc = "done"], out |-> Raise("ZeroDivisionError")]
            ELSE [gen |-> [g EXCEPT !.pc = "yield"], out |-> Yield(PyNone)]
      [] g.pc = "yield" -> wave_modulating_loop(g, 0, value)
      [] g.pc = "yield output" -> wave_modulating_loop(g, g.step + 1, value)
      [] g.pc = "done" -> [gen |-> g, out |-> StopIteration]

\* ------------------------------------------------ Item 35: timer(period)
\* the generator object right after the call timer(period): no line has run
timer(period) == [pc |-> "created", period |-> period, current |-> period]

\* the handler if it left current alone
ResetKeepsCurrent(g) == g.current

\* `except Reset: current = period`
timer_except_Reset(g) == g.period

\* one turn of `while current:` from its test to the next yield or the return
timer_loop(g, current) ==
    IF current # 0
    THEN [gen |-> [g EXCEPT !.pc = "yield", !.current = current - 1],
          out |-> Yield(PyInt(current - 1))]
    ELSE [gen |-> [g EXCEPT !.pc = "done", !.current = current],
          out |-> StopIteration]

\* next(it)
timer_next(g) ==
    CASE g.pc = "created" -> timer_loop(g, g.period)
      [] g.pc = "yield" -> timer_loop(g, g.current)
      [] g.pc = "done" -> [gen |-> g, out |-> StopIteration]

\* it.throw(Reset()): raised at the yield the generator is paused at; a generator
\* that has not started or has finished raises it back to the caller
timer_throw(g) ==
    CASE g.pc = "created" -> [gen |-> [g EXCEPT !.pc = "done"], out |-> Raise("Reset")]
      [] g.pc = "yield" -> timer_loop(g, timer_except_Reset(g))
      [] g.pc = "done" -> [gen |-> g, out |-> Raise("Reset")]

\* ------------------------------------------------ Item 35: class Timer
\* Timer.__init__
Timer(period) == [current |-> period, period |-> period]

\* reset() if it assigned nothing
ResetForgotten(self) == self

\* Timer.reset
Timer_reset(self) == [self EXCEPT !.current = self.period]

\* Timer.__iter__: calling it only makes the generator object
Timer_iter == [pc |-> "created"]

\* next() on a generator made by Timer.__iter__: the countdown lives in self
Timer_iter_next(self, g) ==
    IF g.pc = "done"
    THEN [self |-> self, gen |-> g, out |-> StopIteration]
    ELSE IF self.current # 0
         THEN [self |-> [self EXCEPT !.current = self.current - 1],
               gen |-> [g EXCEPT !.pc = "yield"],
               out |-> Yield(PyInt(self.current - 1))]
         ELSE [self |-> self, gen |-> [g EXCEPT !.pc = "done"], out |-> StopIteration]

\* ------------------------------------------------ Item 35: the two run()
\* the period both run() functions pass: timer(4), Timer(4)
RunPeriod == 4

\* --------------------------------------- Item 34: complex_wave_cascading
\* iter(amplitudes): the list and how many of its elements have been taken
list_iterator(list) == [list |-> list, pos |-> 0]

\* the steps of the three delegations of complex_wave_cascading
CascadingSteps == <<3, 4, 5>>

\* the generator object right after the call wave_cascading(amplitude_it, steps);
\* the amplitude iterator is the caller's object, kept beside the generator
wave_cascading(steps) == [pc |-> "created", steps |-> steps, step |-> 0]

\* next() on a wave_cascading generator that reads amplitude_it: a StopIteration
\* of next(amplitude_it) inside the generator comes out as RuntimeError
wave_cascading_next(g, amplitude_it) ==
    LET step == IF g.pc = "created" THEN 0 ELSE g.step + 1
    IN CASE g.pc = "done" ->
              [gen |-> g, amplitude_it |-> amplitude_it, out |-> StopIteration]
         [] g.pc # "done" /\ step >= g.steps ->
              [gen |-> [g EXCEPT !.pc = "done"], amplitude_it |-> amplitude_it,
               out |-> StopIteration]
         [] g.pc # "done" /\ step < g.steps /\ amplitude_it.pos >= Len(amplitude_it.list) ->
              [gen |-> [g EXCEPT !.pc = "done", !.step = step],
               amplitude_it |-> amplitude_it, out |-> Raise("RuntimeError")]
         [] OTHER ->
              [gen |-> [g EXCEPT !.pc = "yield output", !.step = step],
               amplitude_it |-> [amplitude_it EXCEPT !.pos = @ + 1],
               out |-> Yield(PyInt(wave_output(amplitude_it.list[amplitude_it.pos + 1],
                                               step, g.steps)))]

\* the delegation if every wave_cascading got an iterator of its own
IteratorPerGenerator(amplitude_it) == list_iterator(amplitude_it.list)

\* the iterator complex_wave_cascading hands to each wave_cascading: its own
\* argument, the same object every time
delegated_amplitude_it(amplitude_it) == amplitude_it

\* the generator object right after the call complex_wave_cascading(amplitude_it):
\* nth is the `yield from` it is in, sub the generator that one delegates to
complex_wave_cascading ==
    [pc |-> "created", nth |-> 0, sub |-> wave_cascading(0)]

RECURSIVE yield_from_wave_cascading(_, _, _)
\* `yield from` number nth resumed: what its generator yields is yielded, its
\* return starts the next `yield from`, its exception ends the outer generator
yield_from_wave_cascading(nth, sub, amplitude_it) ==
    LET r == wave_cascading_next(sub, amplitude_it)
    IN CASE r.out.kind = "yield" ->
              [gen |-> [pc |-> "yield from", nth |-> nth, sub |-> r.gen],
               amplitude_it |-> r.amplitude_it, out |-> r.out]
         [] r.out = StopIteration /\ nth < Len(CascadingSteps) ->
              yield_from_wave_cascading(nth + 1, wave_cascading(CascadingSteps[nth + 1]),
                                        delegated_amplitude_it(r.amplitude_it))
         [] OTHER ->
              [gen |-> [pc |-> "done", nth |-> nth, sub |-> r.gen],
               amplitude_it |-> r.amplitude_it, out |-> r.out]

\* next(it) on complex_wave_cascading
complex_wave_cascading_next(g, amplitude_it) ==
    CASE g.pc = "created" ->
            yield_from_wave_cascading(1, wave_cascading(CascadingSteps[1]),
                                      delegated_amplitude_it(amplitude_it))
      [] g.pc = "yield from" -> yield_from_wave_cascading(g.nth, g.sub, amplitude_it)
      [] g.pc = "done" -> [gen |-> g, amplitude_it |-> amplitude_it, out |-> StopIteration]

\* the amplitudes of run_cascading
run_cascading_amplitudes == <<7, 7, 7, 2, 2, 2, 2, 10, 10, 10, 10, 10>>

\* ------------------------------- Item 35: my_generator (yield 1, 2, 3)
\* the generator object right after the call my_generator() of lines 646-649
my_generator_plain == [pc |-> "created"]

\* next(it)
my_generator_plain_next(g) ==
    CASE g.pc = "created" -> [gen |-> [pc |-> "yield 1"], out |-> Yield(PyInt(1))]
      [] g.pc = "yield 1" -> [gen |-> [pc |-> "yield 2"], out |-> Yield(PyInt(2))]
      [] g.pc = "yield 2" -> [gen |-> [pc |-> "yield 3"], out |-> Yield(PyInt(3))]
      [] g.pc = "yield 3" -> [gen |-> [pc |-> "done"], out |-> StopIteration]
      [] g.pc = "done" -> [gen |-> g, out |-> StopIteration]

\* throw if the exception were dropped and the generator resumed
ThrowResumesPlain(g) == my_generator_plain_next(g)

\* it.throw(MyError(...)): no statement of the body handles the exception
my_generator_plain_throw(g) == [gen |-> [pc |-> "done"], out |-> Raise("MyError")]

\* ------------------------- Item 35: my_generator (try/except MyError)
\* the generator object right after the call my_generator() of lines 661-669;
\* printed says that 'Got MyError!' was printed
my_generator_try == [pc |-> "created", printed |-> FALSE]

\* next(it): leaving the try normally runs its else clause
my_generator_try_next(g) ==
    CASE g.pc = "created" -> [gen |-> [g EXCEPT !.pc = "yield 1"], out |-> Yield(PyInt(1))]
      [] g.pc = "yield 1" -> [gen |-> [g EXCEPT !.pc = "yield 2"], out |-> Yield(PyInt(2))]
      [] g.pc = "yield 2" -> [gen |-> [g EXCEPT !.pc = "yield 3"], out |-> Yield(PyInt(3))]
      [] g.pc = "yield 3" -> [gen |-> [g EXCEPT !.pc = "yield 4"], out |-> Yield(PyInt(4))]
      [] g.pc = "yield 4" -> [gen |-> [g EXCEPT !.pc = "done"], out |-> StopIteration]
      [] g.pc = "done" -> [gen |-> g, out |-> StopIteration]

\* throw if no yield were inside the try
ThrowNeverCaught(g) == [gen |-> [g EXCEPT !.pc = "done"], out |-> Raise("MyError")]

\* it.throw(MyError(...)): only `yield 2` is inside the try; the handler prints
\* and falls through to `yield 4`
my_generator_try_throw(g) ==
    IF g.pc = "yield 2"
    THEN [gen |-> [g EXCEPT !.pc = "yield 4", !.printed = TRUE], out |-> Yield(PyInt(4))]
    ELSE [gen |-> [g EXCEPT !.pc = "done"], out |-> Raise("MyError")]

\* ------------------------------- Item 33: animate and animate_composed
\* Deltas are in tenths: 50 is the speed 5.0, 30 the speed 3.0.
\* the generator object right after the call move(period, speed); i counts the
\* turns of `for _ in range(period)` taken
move(period, speed) ==
    [fn |-> "move", pc |-> "created", range |-> period, i |-> 0, speed |-> speed]

\* the generator object right after the call pause(delay)
pause(delay) ==
    [fn |-> "pause", pc |-> "created", range |-> delay, i |-> 0, speed |-> 0]

\* a generator the body has not reached the call of yet
uncalled == [fn |-> "", pc |-> "uncalled", range |-> 0, i |-> 0, speed |-> 0]

\* next() on a move generator: `yield speed` once per turn
move_next(g) ==
    IF g.pc # "done" /\ g.i < g.range
    THEN [gen |-> [g EXCEPT !.pc = "yield", !.i = @ + 1], out |-> Yield(PyInt(g.speed))]
    ELSE [gen |-> [g EXCEPT !.pc = "done"], out |-> StopIteration]

\* next() on a pause generator: `yield 0` once per turn
pause_next(g) ==
    IF g.pc # "done" /\ g.i < g.range
    THEN [gen |-> [g EXCEPT !.pc = "yield", !.i = @ + 1], out |-> Yield(PyInt(0))]
    ELSE [gen |-> [g EXCEPT !.pc = "done"], out |-> StopIteration]

nested_next(g) == IF g.fn = "move" THEN move_next(g) ELSE pause_next(g)

\* the generator object right after the call animate() or animate_composed():
\* nth is the loop (or `yield from`) it is in, nested the three generators
animation == [pc |-> "created", nth |-> 1, nested |-> <<uncalled, uncalled, uncalled>>]

\* the calls of the three for statements of animate
animate_calls == <<move(4, 50), pause(3), move(2, 30)>>

RECURSIVE animate_for(_, _)
\* animate at the head of its for loop number nth: the loop calls its generator
\* when it is entered, yields each delta it gets, and gives way to the next
\* loop when the generator is exhausted
animate_for(g, nth) ==
    LET entered == IF g.nested[nth].pc = "uncalled" THEN animate_calls[nth]
                                                    ELSE g.nested[nth]
        r == nested_next(entered)
        after == [g EXCEPT !.nth = nth, !.nested[nth] = r.gen]
    IN IF r.out.kind = "yield"
       THEN [gen |-> [after EXCEPT !.pc = "yield delta"], out |-> r.out]
       ELSE IF nth < Len(animate_calls)
       THEN animate_for(after, nth + 1)
       ELSE [gen |-> [after EXCEPT !.pc = "done"], out |-> StopIteration]

\* next(it) on animate
animate_next(g) ==
    IF g.pc = "done" THEN [gen |-> g, out |-> StopIteration] ELSE animate_for(g, g.nth)

\* the calls if the pause came after both moves
ComposedPauseLast == <<move(4, 50), move(2, 30), pause(3)>>

\* the calls of the three `yield from` of animate_composed
animate_composed_calls == <<move(4, 50), pause(3), move(2, 30)>>

RECURSIVE animate_composed_yield_from(_, _)
\* animate_composed at its `yield from` number nth: the expression calls its
\* generator when it is reached, passes on every value of it, and ends when the
\* generator returns
animate_composed_yield_from(g, nth) ==
    LET reached == IF g.nested[nth].pc = "uncalled" THEN animate_composed_calls[nth]
                                                    ELSE g.nested[nth]
        r == nested_next(reached)
        after == [g EXCEPT !.nth = nth, !.nested[nth] = r.gen]
    IN CASE r.out.kind = "yield" ->
              [gen |-> [after EXCEPT !.pc = "yield from"], out |-> r.out]
         [] r.out.kind # "yield" /\ nth < Len(animate_composed_calls) ->
              animate_composed_yield_from(after, nth + 1)
         [] OTHER -> [gen |-> [after EXCEPT !.pc = "done"], out |-> StopIteration]

\* next(it) on animate_composed
animate_composed_next(g) ==
    IF g.pc = "done" THEN [gen |-> g, out |-> StopIteration]
                     ELSE animate_composed_yield_from(g, g.nth)

\* ------------------------------------- Item 31: normalize, read_visits
\* A line of my_numbers.txt is its decimal digits, first digit first.
RECURSIVE int(_)
\* int(line)
int(line) ==
    IF Len(line) = 0 THEN 0
    ELSE 10 * int(SubSeq(line, 1, Len(line) - 1)) + line[Len(line)]

\* Objects that are passed around and advanced are kept in a heap, a sequence
\* of objects, and named by their place in it.
\* the generator object right after the call read_visits(data_path)
read_visits == [type |-> "generator", pc |-> "created", pos |-> 0, list |-> <<>>]

\* iter(list): the list and how many elements were taken
visits_iterator(list) == [type |-> "list_iterator", pc |-> "created", pos |-> 0, list |-> list]

\* next() on a read_visits generator over the lines of the file
read_visits_next(g, lines) ==
    IF g.pc # "done" /\ g.pos < Len(lines)
    THEN [obj |-> [g EXCEPT !.pc = "yield", !.pos = @ + 1],
          out |-> Yield(PyInt(int(lines[g.pos + 1])))]
    ELSE [obj |-> [g EXCEPT !.pc = "done"], out |-> StopIteration]

\* next() on a list iterator
list_iterator_next(li) ==
    IF li.pc # "done" /\ li.pos < Len(li.list)
    THEN [obj |-> [li EXCEPT !.pc = "yield", !.pos = @ + 1],
          out |-> Yield(PyInt(li.list[li.pos + 1]))]
    ELSE [obj |-> [li EXCEPT !.pc = "done"], out |-> StopIteration]

\* the generator object a call of ReadVisits.__iter__ makes
ReadVisits_generator ==
    [type |-> "ReadVisits.__iter__", pc |-> "created", pos |-> 0, list |-> <<>>]

\* next() on a generator of ReadVisits.__iter__: it opens the file itself and
\* yields int(line) for each line
ReadVisits_generator_next(g, lines) ==
    IF g.pc # "done" /\ g.pos < Len(lines)
    THEN [obj |-> [g EXCEPT !.pc = "yield", !.pos = @ + 1],
          out |-> Yield(PyInt(int(lines[g.pos + 1])))]
    ELSE [obj |-> [g EXCEPT !.pc = "done"], out |-> StopIteration]

\* __iter__ if every call handed out the generator of the first call
IterSharesGenerator(heap) ==
    IF \E k \in 1..Len(heap) : heap[k].type = "ReadVisits.__iter__"
    THEN [heap |-> heap,
          ref |-> CHOOSE k \in 1..Len(heap) : heap[k].type = "ReadVisits.__iter__"]
    ELSE [heap |-> Append(heap, ReadVisits_generator), ref |-> Len(heap) + 1]

\* ReadVisits.__iter__(self): a generator function, so each call makes a new
\* generator object
ReadVisits___iter__(heap) ==
    [heap |-> Append(heap, ReadVisits_generator), ref |-> Len(heap) + 1]

\* next() on the heap object at ref
heap_next(heap, ref, lines) ==
    LET r == CASE heap[ref].type = "generator" -> read_visits_next(heap[ref], lines)
               [] heap[ref].type = "ReadVisits.__iter__" ->
                     ReadVisits_generator_next(heap[ref], lines)
               [] OTHER -> list_iterator_next(heap[ref])
    IN [heap |-> [heap EXCEPT ![ref] = r.obj], out |-> r.out]

\* iter() if it made a new iterator for an iterator too, as a container does
IterMakesNewGenerator(heap, numbers) ==
    [heap |-> Append(heap, IF numbers.kind = "iterator" THEN read_visits
                                                         ELSE visits_iterator(numbers.list)),
     ref |-> Len(heap) + 1]

\* iter(numbers), as sum(numbers), `for value in numbers` and list(it) call it:
\* an iterator (a generator, a list iterator) is its own iterator, a list gets a
\* new list iterator each time, a ReadVisits what its __iter__ returns
iter(heap, numbers) ==
    CASE numbers.kind \in {"iterator", "list_iterator"} ->
            [heap |-> heap, ref |-> numbers.ref]
      [] numbers.kind = "ReadVisits" -> ReadVisits___iter__(heap)
      [] OTHER ->
            [heap |-> Append(heap, visits_iterator(numbers.list)), ref |-> Len(heap) + 1]

\* percent = 100 * value / total, kept as the exact fraction
percent(value, total) == [num |-> 100 * value, den |-> total]

\* the frame of normalize(numbers) when its first line, total = sum(numbers),
\* starts: sum has called iter(numbers)
normalize(heap, numbers) ==
    LET i == iter(heap, numbers)
    IN [heap |-> i.heap, numbers |-> numbers, pc |-> "sum", iterating |-> i.ref,
        total |-> 0, result |-> <<>>]

\* sum(numbers) takes one more element; when there is none total is bound, result
\* is made and the for statement calls iter(numbers)
normalize_sum(f, lines) ==
    LET r == heap_next(f.heap, f.iterating, lines)
        i == iter(r.heap, f.numbers)
    IN IF r.out.kind = "yield"
       THEN [f EXCEPT !.heap = r.heap, !.total = @ + r.out.val.n]
       ELSE [f EXCEPT !.heap = i.heap, !.iterating = i.ref, !.pc = "for"]

\* one turn of `for value in numbers:`; the return when there is no value left
normalize_for(f, lines) ==
    LET r == heap_next(f.heap, f.iterating, lines)
    IN CASE r.out.kind # "yield" -> [f EXCEPT !.heap = r.heap, !.pc = "returned"]
         [] r.out.kind = "yield" /\ f.total = 0 ->
              [f EXCEPT !.heap = r.heap, !.pc = "ZeroDivisionError"]
         [] OTHER ->
              [f EXCEPT !.heap = r.heap,
                        !.result = Append(@, percent(r.out.val.n, f.total))]

\* ---------------------------------------- Item 31: normalize_defensive
\* `iter(numbers) is numbers` (line 336): iter is called and its result compared
\* with the argument; a list or a ReadVisits is no object of the heap
iter_is_numbers(heap, numbers) ==
    LET i == iter(heap, numbers)
    IN [heap |-> i.heap, is |-> numbers.ref # 0 /\ i.ref = numbers.ref]

\* isinstance if only generators counted as iterators
IsInstanceGenerator(numbers) == numbers.kind = "iterator"

\* `isinstance(numbers, Iterator)` (line 352): the object has __iter__ and
\* __next__, as generators and list iterators do
isinstance_Iterator(numbers) == numbers.kind \in {"iterator", "list_iterator"}

\* the frame of normalize_defensive(numbers) when it is called; version 1 is the
\* definition of line 335, version 2 the one of line 351
normalize_defensive(version, heap, numbers) ==
    [version |-> version, heap |-> heap, numbers |-> numbers, pc |-> "called",
     iterating |-> 0, total |-> 0, result |-> <<>>]

\* the if statement of normalize_defensive: TypeError for an iterator, else on
\* to total = sum(numbers), the same lines as in normalize
normalize_defensive_check(f) ==
    LET c == IF f.version = 1 THEN iter_is_numbers(f.heap, f.numbers)
                              ELSE [heap |-> f.heap, is |-> isinstance_Iterator(f.numbers)]
        n == normalize(c.heap, f.numbers)
    IN IF c.is
       THEN [f EXCEPT !.heap = c.heap, !.pc = "TypeError"]
       ELSE [f EXCEPT !.heap = n.heap, !.pc = n.pc, !.iterating = n.iterating]

\* ---------------------------------------- Item 30: index_words_iter, index_file
\* a generator of index_words_iter(text) before its first next(); index is the
\* next index enumerate(text) hands out
index_words_iter == [pc |-> "created", index |-> 0]

\* the for loop of index_words_iter from `index` on: the next yield index + 1
RECURSIVE index_words_iter_for(_, _)
index_words_iter_for(text, index) ==
    IF index >= Len(text)
    THEN [obj |-> [pc |-> "done", index |-> index], out |-> StopIteration]
    ELSE IF text[index + 1] = " "
         THEN [obj |-> [pc |-> "yield", index |-> index + 1],
               out |-> Yield(PyInt(index + 1))]
         ELSE index_words_iter_for(text, index + 1)

\* next() on a generator of index_words_iter(text)
index_words_iter_next(g, text) ==
    CASE g.pc = "done" -> [obj |-> g, out |-> StopIteration]
      [] g.pc = "created" /\ text # <<>> ->
            [obj |-> [g EXCEPT !.pc = "yield"], out |-> Yield(PyInt(0))]
      [] OTHER -> index_words_iter_for(text, g.index)

\* the lines a text file hands out under `for line in handle`: each ends with
\* its newline, the last one possibly without
RECURSIVE handle_lines(_, _)
handle_lines(text, line) ==
    IF text = <<>>
    THEN IF line = <<>> THEN <<>> ELSE <<line>>
    ELSE IF Head(text) = "\n"
         THEN <<Append(line, "\n")>> \o handle_lines(Tail(text), <<>>)
         ELSE handle_lines(Tail(text), Append(line, Head(text)))

\* a generator of index_file(handle) before its first next(); line is the number
\* of lines taken from the handle, letter the letters passed in that line
index_file == [pc |-> "created", offset |-> 0, line |-> 0, letter |-> 0]

RECURSIVE index_file_for_line(_, _, _), index_file_for_letter(_, _, _, _)

\* index_file without the yield at the start of a line
LinesWithoutYield(handle, line, offset) ==
    IF line > Len(handle)
    THEN [obj |-> [pc |-> "done", offset |-> offset, line |-> Len(handle), letter |-> 0],
          out |-> StopIteration]
    ELSE index_file_for_letter(handle, line, 0, offset)

\* `for line in handle` of index_file with `line` the next line to take
index_file_for_line(handle, line, offset) ==
    IF line > Len(handle)
    THEN [obj |-> [pc |-> "done", offset |-> offset, line |-> Len(handle), letter |-> 0],
          out |-> StopIteration]
    ELSE IF handle[line] # <<>>
         THEN [obj |-> [pc |-> "yield", offset |-> offset, line |-> line, letter |-> 0],
               out |-> Yield(PyInt(offset))]
         ELSE index_file_for_letter(handle, line, 0, offset)

\* `for letter in line` of index_file after `letter` letters of the line
index_file_for_letter(handle, line, letter, offset) ==
    IF letter >= Len(handle[line])
    THEN index_file_for_line(handle, line + 1, offset)
    ELSE IF handle[line][letter + 1] = " "
         THEN [obj |-> [pc |-> "yield", offset |-> offset + 1, line |-> line,
                        letter |-> letter + 1],
               out |-> Yield(PyInt(offset + 1))]
         ELSE index_file_for_letter(handle, line, letter + 1, offset + 1)

\* next() on a generator of index_file(handle)
index_file_next(g, handle) ==
    CASE g.pc = "done" -> [obj |-> g, out |-> StopIteration]
      [] g.pc = "created" -> index_file_for_line(handle, 1, 0)
      [] OTHER -> index_file_for_letter(handle, g.line, g.letter, g.offset)

\* list(index_words_iter(text)), from the generator g on
RECURSIVE list_index_words_iter(_, _)
list_index_words_iter(g, text) ==
    LET r == index_words_iter_next(g, text)
    IN IF r.out.kind = "yield"
       THEN <<r.out.val.n>> \o list_index_words_iter(r.obj, text)
       ELSE <<>>

\* ---------------------------------------- Chapter 3, Item 20: careful_divide
RECURSIVE gcd(_, _)
gcd(m, n) == IF n = 0 THEN m ELSE gcd(n, m % n)

abs(n) == IF n < 0 THEN -n ELSE n

\* the float num/den, in lowest terms with the sign in num
PyFloat(num, den) ==
    LET g == gcd(abs(num), abs(den))
        sign == IF den < 0 THEN -1 ELSE 1
    IN [t |-> "float", num |-> sign * (num \div g), den |-> abs(den) \div g]

\* a two-tuple
PyTuple(first, second) == [t |-> "tuple", first |-> first, second |-> second]

PyBool(b) == [t |-> "bool", b |-> b]

\* what a call ends with
Return(v) == [kind |-> "return", val |-> v, exc |-> ""]

\* a / b
true_divide(a, b) == IF b = 0 THEN Raise("ZeroDivisionError") ELSE Return(PyFloat(a, b))

\* the try block of careful_divide: def 1 is the one of line 26, def 2 the one
\* of line 40, def 3 the one of line 54; a ZeroDivisionError goes to the handler
careful_divide_try(def, a, b) ==
    LET q == true_divide(a, b)
    IN CASE q.kind = "raise" -> q
         [] def = 2 -> Return(PyTuple(PyBool(TRUE), q.val))
         [] OTHER -> q

\* a handler that returns None whatever the definition
ExceptReturnsNone(def) == Return(PyNone)

\* the except ZeroDivisionError block of careful_divide
careful_divide_except(def) ==
    CASE def = 1 -> Return(PyNone)
      [] def = 2 -> Return(PyTuple(PyBool(FALSE), PyNone))
      [] OTHER -> Raise("ValueError")

\* ---------------------------------------- Chapter 2, Items 17 and 18 as scripts
\* a top-level statement: its line, the Item block it stands in, the global
\* names it reads, the global names read by the function bodies it runs, the
\* names it binds, and the exception it raises ("OSError": only if open fails);
\* builtins (set, print, open, dict, OSError) are bound in no block and left out
Statement(line, block, reads, body, binds, raises) ==
    [line |-> line, block |-> block, reads |-> reads, body |-> body, binds |-> binds,
     raises |-> raises]

\* Item 17, lines 438-507
Item17 ==
    << Statement(443, 17, {}, {}, {"visits"}, ""),
       Statement(447, 17, {"visits"}, {}, {}, ""),
       Statement(450, 17, {"visits"}, {}, {"japan"}, ""),
       Statement(452, 17, {"japan"}, {}, {}, ""),
       Statement(453, 17, {"visits"}, {}, {}, ""),
       Statement(466, 17, {}, {}, {"Visits"}, ""),
       Statement(475, 17, {"Visits"}, {}, {"visits"}, ""),
       Statement(476, 17, {"visits"}, {}, {}, ""),
       Statement(477, 17, {"visits"}, {}, {}, ""),
       Statement(478, 17, {"visits"}, {}, {}, ""),
       Statement(485, 17, {}, {}, {"Visits"}, ""),
       Statement(493, 17, {"Visits"}, {"defaultdict"}, {"visits"}, ""),
       Statement(494, 17, {"visits"}, {}, {}, ""),
       Statement(495, 17, {"visits"}, {}, {}, ""),
       Statement(496, 17, {"visits"}, {}, {}, "") >>

\* Item 18, lines 508-598
Item18 ==
    << Statement(519, 18, {}, {}, {"pictures"}, ""),
       Statement(520, 18, {}, {}, {"path"}, ""),
       Statement(521, 18, {"pictures", "path"}, {}, {"handle"}, "OSError"),
       Statement(529, 18, {"handle"}, {}, {}, ""),
       Statement(530, 18, {"handle"}, {}, {"image_data"}, ""),
       Statement(545, 18, {"pictures", "path"}, {}, {"handle"}, "OSError"),
       Statement(551, 18, {"handle"}, {}, {}, ""),
       Statement(552, 18, {"handle"}, {}, {"image_data"}, ""),
       Statement(557, 18, {}, {}, {"defaultdict"}, ""),
       Statement(560, 18, {}, {}, {"open_picture"}, ""),
       Statement(573, 18, {"defaultdict", "open_picture"}, {}, {"pictures"}, ""),
       Statement(574, 18, {"pictures", "path"}, {}, {"handle"}, "TypeError"),
       Statement(575, 18, {"handle"}, {}, {}, ""),
       Statement(576, 18, {"handle"}, {}, {"image_data"}, ""),
       Statement(588, 18, {}, {}, {"Pictures"}, ""),
       Statement(595, 18, {"Pictures"}, {}, {"pictures"}, ""),
       Statement(596, 18, {"pictures", "path"}, {"open_picture"}, {"handle"}, "OSError"),
       Statement(597, 18, {"handle"}, {}, {}, ""),
       Statement(598, 18, {"handle"}, {}, {"image_data"}, "") >>

Script == Item17 \o Item18

Names ==
    UNION {Script[i].reads \cup Script[i].body \cup Script[i].binds : i \in 1..Len(Script)}

\* the interpreter about to run statement pc of Script with no name bound yet;
\* bound[n] is the set of blocks whose statements have bound n so far, foreign
\* the reads (line, name) of a name that the reader's own block had not bound
script(pc) ==
    [pc |-> pc, bound |-> [n \in Names |-> {}], foreign |-> {}, exc |-> "", line |-> 0]

\* one statement run: NameError on a name nothing has bound, else the
\* statement's own exception, else its bindings and on to the next statement
script_step(s, open_fails) ==
    LET st == Script[s.pc]
        read == st.reads \cup st.body
        seen == [s EXCEPT !.line = st.line,
                          !.foreign = @ \cup {<<st.line, n>> : n \in
                                                {m \in read : st.block \notin s.bound[m]}}]
    IN CASE \E n \in read : s.bound[n] = {} -> [seen EXCEPT !.exc = "NameError"]
         [] st.raises = "TypeError" -> [seen EXCEPT !.exc = "TypeError"]
         [] st.raises = "OSError" /\ open_fails -> [seen EXCEPT !.exc = "OSError"]
         [] OTHER ->
               [seen EXCEPT !.pc = @ + 1,
                            !.bound = [n \in Names |-> IF n \in st.binds
                                                        THEN @[n] \cup {st.block}
                                                        ELSE @[n]]]

\* ------------------------------------------------ the snippets
VARIABLES item, tg, tc, resets, rg, rc, mg, wm, cw, gp, gt, an, ac, my_numbers, lt, nz,
    ri, nd, ix, dv, sc

vars == <<item, tg, tc, resets, rg, rc, mg, wm, cw, gp, gt, an, ac, my_numbers, lt, nz,
    ri, nd, ix, dv, sc>>

\* the snippets driven
Items ==
    {"timer", "Timer", "run", "send", "modulating", "cascading", "throw", "throw_try",
     "animate", "visits", "ReadVisits", "defensive", "index", "divide", "script"}

\* what a step of one snippet leaves alone: the objects of all the others
Frame_tg == UNCHANGED <<item, tc, resets, rg, rc, mg, wm, cw, gp, gt, an, ac,
    my_numbers, lt, nz, ri, nd, ix, dv, sc>>
Frame_tc == UNCHANGED <<item, tg, resets, rg, rc, mg, wm, cw, gp, gt, an, ac,
    my_numbers, lt, nz, ri, nd, ix, dv, sc>>
Frame_rg == UNCHANGED <<item, tg, tc, resets, rc, mg, wm, cw, gp, gt, an, ac,
    my_numbers, lt, nz, ri, nd, ix, dv, sc>>
Frame_rc == UNCHANGED <<item, tg, tc, resets, rg, mg, wm, cw, gp, gt, an, ac,
    my_numbers, lt, nz, ri, nd, ix, dv, sc>>
Frame_mg == UNCHANGED <<item, tg, tc, resets, rg, rc, wm, cw, gp, gt, an, ac,
    my_numbers, lt, nz, ri, nd, ix, dv, sc>>
Frame_wm == UNCHANGED <<item, tg, tc, resets, rg, rc, mg, cw, gp, gt, an, ac,
    my_numbers, lt, nz, ri, nd, ix, dv, sc>>
Frame_cw == UNCHANGED <<item, tg, tc, resets, rg, rc, mg, wm, gp, gt, an, ac,
    my_numbers, lt, nz, ri, nd, ix, dv, sc>>
Frame_gp == UNCHANGED <<item, tg, tc, resets, rg, rc, mg, wm, cw, gt, an, ac,
    my_numbers, lt, nz, ri, nd, ix, dv, sc>>
Frame_gt == UNCHANGED <<item, tg, tc, resets, rg, rc, mg, wm, cw, gp, an, ac,
    my_numbers, lt, nz, ri, nd, ix, dv, sc>>
Frame_an == UNCHANGED <<item, tg, tc, resets, rg, rc, mg, wm, cw, gp, gt, ac,
    my_numbers, lt, nz, ri, nd, ix, dv, sc>>
Frame_ac == UNCHANGED <<item, tg, tc, resets, rg, rc, mg, wm, cw, gp, gt, an,
    my_numbers, lt, nz, ri, nd, ix, dv, sc>>
Frame_lt == UNCHANGED <<item, tg, tc, resets, rg, rc, mg, wm, cw, gp, gt, an, ac,
    my_numbers, nz, ri, nd, ix, dv, sc>>
Frame_nz == UNCHANGED <<item, tg, tc, resets, rg, rc, mg, wm, cw, gp, gt, an, ac,
    my_numbers, lt, ri, nd, ix, dv, sc>>
Frame_ri == UNCHANGED <<item, tg, tc, resets, rg, rc, mg, wm, cw, gp, gt, an, ac,
    my_numbers, lt, nz, nd, ix, dv, sc>>
Frame_nd == UNCHANGED <<item, tg, tc, resets, rg, rc, mg, wm, cw, gp, gt, an, ac,
    my_numbers, lt, nz, ri, ix, dv, sc>>
Frame_ix == UNCHANGED <<item, tg, tc, resets, rg, rc, mg, wm, cw, gp, gt, an, ac,
    my_numbers, lt, nz, ri, nd, dv, sc>>
Frame_dv == UNCHANGED <<item, tg, tc, resets, rg, rc, mg, wm, cw, gp, gt, an, ac,
    my_numbers, lt, nz, ri, nd, ix, sc>>
Frame_sc == UNCHANGED <<item, tg, tc, resets, rg, rc, mg, wm, cw, gp, gt, an, ac,
    my_numbers, lt, nz, ri, nd, ix, dv>>

\* check_for_reset(): the external event polled; the n-th poll answers resets[n],
\* and no event is pending once the recorded answers are used up
check_for_reset(n) == IF n <= Len(resets) THEN resets[n] ELSE FALSE

\* the timer snippet: the generator, the last call on it and what it gave
TimerGenInit(period) ==
    [it |-> timer(period), op |-> "none", prepc |-> "created", prev |-> NoCall,
     out |-> NoCall, yielded |-> <<>>, thrown |-> 0]

TimerGenCall(op, r) ==
    tg' = [tg EXCEPT !.it = r.gen, !.op = op, !.prepc = tg.it.pc, !.prev = tg.out,
                     !.out = r.out,
                     !.yielded = IF r.out.kind = "yield" THEN Append(@, r.out.val) ELSE @,
                     !.thrown = IF op = "throw" THEN @ + 1 ELSE @]

TimerGenNext ==
    /\ item = "timer"
    /\ TimerGenCall("next", timer_next(tg.it))
    /\ Frame_tg

TimerGenThrow ==
    /\ item = "timer"
    /\ tg.thrown < MaxResets
    /\ TimerGenCall("throw", timer_throw(tg.it))
    /\ Frame_tg

\* the Timer snippet: one Timer object and the iteration currently over it.
\* last is what happened last to the object (an iteration paused part-way, an
\* iteration ran to exhaustion, reset() was called), origin what had happened
\* last when the current iteration was started.
TimerClassInit(period) ==
    [self |-> Timer(period), it |-> [pc |-> "none"], out |-> NoCall,
     yielded |-> <<>>, origin |-> "init", last |-> "init", reset_in_iter |-> FALSE,
     prev_yielded |-> <<>>, prev_origin |-> "init", iters |-> 0, nresets |-> 0]

\* `for current in timer:` starts: iter(timer)
TimerClassIter ==
    /\ item = "Timer"
    /\ tc.iters < MaxIters
    /\ tc' = [tc EXCEPT !.it = Timer_iter, !.out = NoCall, !.yielded = <<>>,
                        !.origin = tc.last, !.reset_in_iter = FALSE,
                        !.prev_yielded = tc.yielded, !.prev_origin = tc.origin,
                        !.iters = @ + 1]
    /\ Frame_tc

TimerClassNext ==
    /\ item = "Timer"
    /\ tc.it.pc # "none"
    /\ LET r == Timer_iter_next(tc.self, tc.it)
       IN tc' = [tc EXCEPT !.self = r.self, !.it = r.gen, !.out = r.out,
                           !.yielded = IF r.out.kind = "yield"
                                       THEN Append(@, r.out.val) ELSE @,
                           !.last = CASE r.out.kind = "yield" -> "partial"
                                      [] tc.it.pc # "done" -> "exhausted"
                                      [] OTHER -> @]
    /\ Frame_tc

TimerClassReset ==
    /\ item = "Timer"
    /\ tc.nresets < MaxResets
    /\ tc' = [tc EXCEPT !.self = Timer_reset(tc.self), !.last = "reset",
                        !.reset_in_iter = TRUE, !.nresets = @ + 1]
    /\ Frame_tc

\* run() over the timer generator (lines 710-721), after `it = timer(4)`
RunGenInit == [pc |-> "loop", it |-> timer(RunPeriod), polls |-> 0, announced |-> <<>>]

\* one turn of `while True:`; an exception other than StopIteration leaves run()
RunGenStep ==
    /\ item = "run"
    /\ rg.pc = "loop"
    /\ LET r == IF check_for_reset(rg.polls + 1) THEN timer_throw(rg.it)
                                                 ELSE timer_next(rg.it)
       IN rg' = [rg EXCEPT !.it = r.gen, !.polls = @ + 1,
                           !.pc = CASE r.out.kind = "yield" -> "loop"
                                    [] r.out = StopIteration -> "done"
                                    [] OTHER -> "raised",
                           !.announced = IF r.out.kind = "yield"
                                         THEN Append(@, r.out.val.n) ELSE @]
    /\ Frame_rg

\* run() over the Timer class (lines 743-748), after `timer = Timer(4)` and the
\* iter(timer) the for statement makes
RunClassInit ==
    [pc |-> "loop", timer |-> Timer(RunPeriod), it |-> Timer_iter, polls |-> 0,
     announced |-> <<>>]

\* one turn of `for current in timer:`
RunClassStep ==
    /\ item = "run"
    /\ rc.pc = "loop"
    /\ LET r == Timer_iter_next(rc.timer, rc.it)
       IN IF r.out.kind = "yield"
          THEN rc' = [rc EXCEPT !.it = r.gen, !.polls = @ + 1,
                                !.timer = IF check_for_reset(rc.polls + 1)
                                          THEN Timer_reset(r.self) ELSE r.self,
                                !.announced = Append(@, r.out.val.n)]
          ELSE rc' = [rc EXCEPT !.it = r.gen, !.timer = r.self, !.pc = "done"]
    /\ Frame_rc

\* the first my_generator snippet: the generator and the last call on it
MyGeneratorInit ==
    [it |-> my_generator, op |-> "none", arg |-> PyNone, prepc |-> "created",
     out |-> NoCall]

\* the values the snippet's caller sends
SentValues == {PyNone, PyStr("hello!"), PyInt(7)}

MyGeneratorNext ==
    /\ item = "send"
    /\ LET r == my_generator_next(mg.it)
       IN mg' = [it |-> r.gen, op |-> "next", arg |-> PyNone, prepc |-> mg.it.pc,
                 out |-> r.out]
    /\ Frame_mg

MyGeneratorSend ==
    /\ item = "send"
    /\ \E value \in SentValues :
         LET r == my_generator_send(mg.it, value)
         IN mg' = [it |-> r.gen, op |-> "send", arg |-> value, prepc |-> mg.it.pc,
                   out |-> r.out]
    /\ Frame_mg

\* the wave_modulating snippet: the generator, the last send and its count;
\* typeerr says that some send raised TypeError
WaveModulatingInit(steps) ==
    [it |-> wave_modulating(steps), arg |-> PyNone, out |-> NoCall, nsends |-> 0,
     typeerr |-> FALSE]

\* run_modulating's `output = it.send(amplitude)`
WaveModulatingSend ==
    /\ item = "modulating"
    /\ wm.nsends < wm.it.steps + 3
    /\ \E value \in {PyNone} \cup {PyInt(a) : a \in Amplitudes} :
         LET r == wave_modulating_send(wm.it, value)
         IN wm' = [it |-> r.gen, arg |-> value, out |-> r.out, nsends |-> wm.nsends + 1,
                   typeerr |-> wm.typeerr \/ r.out = Raise("TypeError")]
    /\ Frame_wm

\* the amplitude lists tried: the one of run_cascading and 1, 2, ..., n
AmplitudeLists ==
    {run_cascading_amplitudes} \cup {[i \in 1..n |-> i] : n \in 0..MaxAmplitudes}

\* the cascading snippet: the amplitude iterator, the generator it was handed
\* to, the outputs so far, and whether a call raised another exception than
\* StopIteration
CascadingInit(amplitudes) ==
    [amplitude_it |-> list_iterator(amplitudes), it |-> complex_wave_cascading,
     out |-> NoCall, outputs |-> <<>>, failed |-> FALSE]

\* run_cascading's `output = next(it)`
CascadingNext ==
    /\ item = "cascading"
    /\ LET r == complex_wave_cascading_next(cw.it, cw.amplitude_it)
       IN cw' = [amplitude_it |-> r.amplitude_it, it |-> r.gen, out |-> r.out,
                 outputs |-> IF r.out.kind = "yield" THEN Append(cw.outputs, r.out.val.n)
                                                     ELSE cw.outputs,
                 failed |-> cw.failed \/ r.out = Raise("RuntimeError")]
    /\ Frame_cw

\* a my_generator snippet of Item 35: the generator, the calls made on it in
\* order, what the last one gave and the values yielded so far
ThrowSnippetInit(g) == [it |-> g, calls |-> <<>>, out |-> NoCall, yielded |-> <<>>]

ThrowSnippetCall(s, op, r) ==
    [it |-> r.gen, calls |-> Append(s.calls, op), out |-> r.out,
     yielded |-> IF r.out.kind = "yield" THEN Append(s.yielded, r.out.val.n)
                                         ELSE s.yielded]

PlainNext ==
    /\ item = "throw"
    /\ Len(gp.calls) < MaxCalls
    /\ gp' = ThrowSnippetCall(gp, "next", my_generator_plain_next(gp.it))
    /\ Frame_gp

PlainThrow ==
    /\ item = "throw"
    /\ Len(gp.calls) < MaxCalls
    /\ gp' = ThrowSnippetCall(gp, "throw", my_generator_plain_throw(gp.it))
    /\ Frame_gp

TryNext ==
    /\ item = "throw_try"
    /\ Len(gt.calls) < MaxCalls
    /\ gt' = ThrowSnippetCall(gt, "next", my_generator_try_next(gt.it))
    /\ Frame_gt

TryThrow ==
    /\ item = "throw_try"
    /\ Len(gt.calls) < MaxCalls
    /\ gt' = ThrowSnippetCall(gt, "throw", my_generator_try_throw(gt.it))
    /\ Frame_gt

\* run(func) of Item 33 after `func()`: the generator, the last next() on it and
\* the deltas rendered
AnimationInit == [it |-> animation, out |-> NoCall, deltas |-> <<>>]

AnimationStep(s, r) ==
    [it |-> r.gen, out |-> r.out,
     deltas |-> IF r.out.kind = "yield" THEN Append(s.deltas, r.out.val.n) ELSE s.deltas]

\* one turn of `for delta in func():` in run(animate)
AnimateNext ==
    /\ item = "animate"
    /\ an.out # StopIteration
    /\ an' = AnimationStep(an, animate_next(an.it))
    /\ Frame_an

\* one turn of `for delta in func():` in run(animate_composed)
AnimateComposedNext ==
    /\ item = "animate"
    /\ ac.out # StopIteration
    /\ ac' = AnimationStep(ac, animate_composed_next(ac.it))
    /\ Frame_ac

\* the lines my_numbers.txt may hold: 15, 35, 80 and 0
Lines == {<<1, 5>>, <<3, 5>>, <<8, 0>>, <<0>>}

\* the numbers of the file as a list (visits)
visits(lines) == [i \in 1..Len(lines) |-> int(lines[i])]

\* lines 251-253: `it = read_visits(...)`, then list(it) twice; each list(it)
\* calls iter(it) once and then takes the elements
ListTwiceInit ==
    LET it == [kind |-> "iterator", ref |-> 1, list |-> <<>>]
        i == iter(<<read_visits>>, it)
    IN [heap |-> i.heap, it |-> it, iterating |-> i.ref, pc |-> "first",
        first |-> <<>>, second |-> <<>>]

\* list(it) takes one more element; when there is none the first list(it) is
\* printed and the second one starts, or the second one is printed
ListTwiceStep ==
    /\ item = "visits"
    /\ lt.pc \in {"first", "second"}
    /\ LET r == heap_next(lt.heap, lt.iterating, my_numbers)
           i == iter(r.heap, lt.it)
       IN lt' = CASE r.out.kind = "yield" /\ lt.pc = "first" ->
                       [lt EXCEPT !.heap = r.heap, !.first = Append(@, r.out.val.n)]
                  [] r.out.kind = "yield" /\ lt.pc = "second" ->
                       [lt EXCEPT !.heap = r.heap, !.second = Append(@, r.out.val.n)]
                  [] r.out.kind # "yield" /\ lt.pc = "first" ->
                       [lt EXCEPT !.heap = i.heap, !.iterating = i.ref, !.pc = "second"]
                  [] OTHER -> [lt EXCEPT !.heap = r.heap, !.pc = "end"]
    /\ Frame_lt

\* normalize called on a read_visits generator (lines 243-244) or on the list
\* of the same numbers
NormalizeInit(kind, lines) ==
    IF kind = "iterator"
    THEN normalize(<<read_visits>>, [kind |-> "iterator", ref |-> 1, list |-> <<>>])
    ELSE normalize(<<>>, [kind |-> "list", ref |-> 0, list |-> visits(lines)])

NormalizeSum ==
    /\ item \in {"visits", "defensive"}
    /\ nz.pc = "sum"
    /\ nz' = normalize_sum(nz, my_numbers)
    /\ Frame_nz

NormalizeFor ==
    /\ item \in {"visits", "defensive"}
    /\ nz.pc = "for"
    /\ nz' = normalize_for(nz, my_numbers)
    /\ Frame_nz

\* a ReadVisits(path) object, as `numbers`
ReadVisits == [kind |-> "ReadVisits", ref |-> 0, list |-> <<>>]

\* the ReadVisits snippet: the iterators taken from one ReadVisits, in the order
\* of the iter() calls, and what each of them has yielded
ReadVisitsInit == [heap |-> <<>>, its |-> <<>>, yielded |-> <<>>, out |-> NoCall]

\* iter(visits)
ReadVisitsIter ==
    /\ item = "ReadVisits"
    /\ Len(ri.its) < MaxIterators
    /\ LET i == iter(ri.heap, ReadVisits)
       IN ri' = [heap |-> i.heap, its |-> Append(ri.its, i.ref),
                 yielded |-> Append(ri.yielded, <<>>), out |-> NoCall]
    /\ Frame_ri

\* next() on one of the iterators, until it is exhausted
ReadVisitsNext ==
    /\ item = "ReadVisits"
    /\ \E k \in 1..Len(ri.its) :
         /\ ri.heap[ri.its[k]].pc # "done"
         /\ LET r == heap_next(ri.heap, ri.its[k], my_numbers)
            IN ri' = [ri EXCEPT !.heap = r.heap, !.out = r.out,
                                !.yielded[k] = IF r.out.kind = "yield"
                                               THEN Append(@, r.out.val.n) ELSE @]
    /\ Frame_ri

\* the arguments tried: a read_visits generator, the list visits, iter(visits)
\* and a ReadVisits, all of the same numbers; heap holds the objects made so far
Arguments(kind, lines) ==
    CASE kind = "iterator" ->
            [heap |-> <<read_visits>>,
             numbers |-> [kind |-> "iterator", ref |-> 1, list |-> <<>>]]
      [] kind = "list_iterator" ->
            [heap |-> <<visits_iterator(visits(lines))>>,
             numbers |-> [kind |-> "list_iterator", ref |-> 1, list |-> <<>>]]
      [] kind = "ReadVisits" -> [heap |-> <<>>, numbers |-> ReadVisits]
      [] OTHER ->
            [heap |-> <<>>, numbers |-> [kind |-> "list", ref |-> 0, list |-> visits(lines)]]

ArgumentKinds == {"iterator", "list_iterator", "ReadVisits", "list"}

\* normalize and normalize_defensive called on one argument each, the two
\* arguments made the same way
DefensiveNormalizeInit(kind, lines) ==
    LET a == Arguments(kind, lines) IN normalize(a.heap, a.numbers)

NormalizeDefensiveInit(version, kind, lines) ==
    LET a == Arguments(kind, lines) IN normalize_defensive(version, a.heap, a.numbers)

NormalizeDefensiveCheck ==
    /\ item = "defensive"
    /\ nd.pc = "called"
    /\ nd' = normalize_defensive_check(nd)
    /\ Frame_nd

NormalizeDefensiveSum ==
    /\ item = "defensive"
    /\ nd.pc = "sum"
    /\ nd' = normalize_sum(nd, my_numbers)
    /\ Frame_nd

NormalizeDefensiveFor ==
    /\ item = "defensive"
    /\ nd.pc = "for"
    /\ nd' = normalize_for(nd, my_numbers)
    /\ Frame_nd

\* the letters of a text: a letter of a word, the space, the newline
Letters == {"a", " ", "\n"}

\* it = index_words_iter(address) and it = index_file(f) over the same text
IndexInit(text) ==
    [text |-> text, words |-> index_words_iter, file |-> index_file,
     word_results |-> <<>>, file_results |-> <<>>]

IndexWordsNext ==
    /\ item = "index"
    /\ ix.words.pc # "done"
    /\ LET r == index_words_iter_next(ix.words, ix.text)
       IN ix' = [ix EXCEPT !.words = r.obj,
                           !.word_results = IF r.out.kind = "yield"
                                            THEN Append(@, r.out.val.n) ELSE @]
    /\ Frame_ix

IndexFileNext ==
    /\ item = "index"
    /\ ix.file.pc # "done"
    /\ LET r == index_file_next(ix.file, handle_lines(ix.text, <<>>))
       IN ix' = [ix EXCEPT !.file = r.obj,
                           !.file_results = IF r.out.kind = "yield"
                                            THEN Append(@, r.out.val.n) ELSE @]
    /\ Frame_ix

Operands == (-MaxOperand)..MaxOperand

\* result = careful_divide(x, y) under one of the three definitions
CarefulDivideInit(def, x, y) ==
    [def |-> def, a |-> x, b |-> y, pc |-> "try", out |-> NoCall]

CarefulDivideTry ==
    /\ item = "divide"
    /\ dv.pc = "try"
    /\ LET r == careful_divide_try(dv.def, dv.a, dv.b)
       IN dv' = IF r.kind = "raise" /\ r.exc = "ZeroDivisionError"
                THEN [dv EXCEPT !.pc = "except"]
                ELSE [dv EXCEPT !.pc = "over", !.out = r]
    /\ Frame_dv

CarefulDivideExcept ==
    /\ item = "divide"
    /\ dv.pc = "except"
    /\ dv' = [dv EXCEPT !.pc = "over", !.out = careful_divide_except(dv.def)]
    /\ Frame_dv

\* the file run from the first line of Item 17, or of Item 18
ScriptInit(block) == script(IF block = 17 THEN 1 ELSE Len(Item17) + 1)

ScriptStep ==
    /\ item = "script"
    /\ sc.exc = ""
    /\ sc.pc <= Len(Script)
    /\ \E open_fails \in BOOLEAN : sc' = script_step(sc, open_fails)
    /\ Frame_sc

RECURSIVE Seqs(_, _)
\* the sequences over S of length at most n
Seqs(S, n) ==
    IF n = 0 THEN {<<>>}
    ELSE LET shorter == Seqs(S, n - 1)
         IN shorter \cup {Append(q, x) : q \in shorter, x \in S}

Init ==
    /\ item \in Items
    /\ tg \in IF item = "timer" THEN {TimerGenInit(p) : p \in 0..MaxPeriod}
                                ELSE {TimerGenInit(0)}
    /\ tc \in IF item = "Timer" THEN {TimerClassInit(p) : p \in 0..MaxPeriod}
                                ELSE {TimerClassInit(0)}
    /\ resets \in IF item = "run" THEN Seqs(BOOLEAN, MaxPolls) ELSE {<<>>}
    /\ rg = RunGenInit
    /\ rc = RunClassInit
    /\ mg = MyGeneratorInit
    /\ wm \in IF item = "modulating"
              THEN {WaveModulatingInit(n) : n \in (0..MaxSteps) \cup {ModulatingSteps}}
              ELSE {WaveModulatingInit(0)}
    /\ cw \in IF item = "cascading" THEN {CascadingInit(a) : a \in AmplitudeLists}
                                    ELSE {CascadingInit(<<>>)}
    /\ gp = ThrowSnippetInit(my_generator_plain)
    /\ gt = ThrowSnippetInit(my_generator_try)
    /\ an = AnimationInit
    /\ ac = AnimationInit
    /\ my_numbers \in IF item \in {"visits", "ReadVisits", "defensive"}
                     THEN Seqs(Lines, MaxLines) ELSE {<<>>}
    /\ lt = ListTwiceInit
    /\ \E kind \in CASE item = "visits" -> {"iterator", "list"}
                    [] item = "defensive" -> ArgumentKinds
                    [] OTHER -> {"iterator"} :
         /\ nz = IF item = "defensive" THEN DefensiveNormalizeInit(kind, my_numbers)
                                       ELSE NormalizeInit(kind, my_numbers)
         /\ nd \in IF item = "defensive"
                   THEN {NormalizeDefensiveInit(v, kind, my_numbers) : v \in {1, 2}}
                   ELSE {NormalizeDefensiveInit(1, "iterator", <<>>)}
    /\ ri = ReadVisitsInit
    /\ ix \in IF item = "index" THEN {IndexInit(text) : text \in Seqs(Letters, MaxText)}
                                ELSE {IndexInit(<<>>)}
    /\ dv \in IF item = "divide"
              THEN {CarefulDivideInit(def, x, y) : def \in 1..3, x \in Operands, y \in Operands}
              ELSE {CarefulDivideInit(1, 1, 0)}
    /\ sc \in IF item = "script" THEN {ScriptInit(17), ScriptInit(18)} ELSE {ScriptInit(17)}

Next ==
    \/ TimerGenNext
    \/ TimerGenThrow
    \/ TimerClassIter
    \/ TimerClassNext
    \/ TimerClassReset
    \/ RunGenStep
    \/ RunClassStep
    \/ MyGeneratorNext
    \/ MyGeneratorSend
    \/ WaveModulatingSend
    \/ CascadingNext
    \/ PlainNext
    \/ PlainThrow
    \/ TryNext
    \/ TryThrow
    \/ AnimateNext
    \/ AnimateComposedNext
    \/ ListTwiceStep
    \/ NormalizeSum
    \/ NormalizeFor
    \/ ReadVisitsIter
    \/ ReadVisitsNext
    \/ NormalizeDefensiveCheck
    \/ NormalizeDefensiveSum
    \/ NormalizeDefensiveFor
    \/ IndexWordsNext
    \/ IndexFileNext
    \/ CarefulDivideTry
    \/ CarefulDivideExcept
    \/ ScriptStep

Spec == Init /\ [][Next]_vars

\* C1: timer(period), period >= 1: with no Reset thrown the values yielded are
\* period-1, period-2, ..., 0 in that order and the call after them raises
\* StopIteration; a Reset thrown while the generator is paused at its yield makes
\* that throw call return period-1, and each later next() returns one less than
\* the value before it (StopIteration after 0).
C1_TimerCountdown ==
    tg.it.period >= 1 =>
        /\ tg.thrown = 0 => IsPrefix(tg.yielded, Countdown(tg.it.period))
        /\ (tg.thrown = 0 /\ tg.out.kind = "raise") =>
               /\ tg.out = StopIteration
               /\ tg.yielded = Countdown(tg.it.period)
        /\ (tg.op = "throw" /\ tg.prepc = "yield") =>
               /\ tg.out = Yield(PyInt(tg.it.period - 1))
               /\ tg.it.pc = "yield"
        /\ (tg.op = "next" /\ tg.prepc = "yield") =>
               IF tg.prev.val.n > 0 THEN tg.out = Yield(PyInt(tg.prev.val.n - 1))
                                    ELSE tg.out = StopIteration

\* a Reset was thrown at a paused timer, and the countdown ran out after it
C1_Witness ==
    /\ tg.it.period >= 2
    /\ tg.thrown >= 1
    /\ tg.out = StopIteration
    /\ Len(tg.yielded) > tg.it.period

\* C2: a Timer keeps its countdown in self.current across iterations: an
\* iteration started right after another one ran to exhaustion yields nothing,
\* and an iteration started right after reset() yields period-1, ..., 0.
C2_TimerPersists ==
    (tc.it.pc = "done" /\ ~tc.reset_in_iter) =>
        /\ tc.origin = "exhausted" => tc.yielded = <<>>
        /\ tc.origin = "reset" => tc.yielded = Countdown(tc.self.period)

\* an exhausted Timer gave an empty iteration, was reset, and counted down again
C2_Witness ==
    /\ tc.self.period >= 2
    /\ tc.it.pc = "done"
    /\ ~tc.reset_in_iter
    /\ tc.origin = "reset"
    /\ tc.yielded = Countdown(tc.self.period)
    /\ tc.prev_origin = "exhausted"
    /\ tc.prev_yielded = <<>>

\* C3: for every sequence of check_for_reset() results, run() over the Timer
\* class announces the same remaining-tick values as run() over the timer
\* generator.
C3_RunsAnnounceSame ==
    (rg.pc # "loop" /\ rc.pc # "loop") =>
        /\ rg.pc = "done"
        /\ rg.announced = rc.announced
\* C4: my_generator with `received = yield 1`: on a generator that has not
\* started, send(None) returns 1 and send of a non-None value raises an error
\* and leaves the generator not started; at the yield, send(v) makes the yield
\* expression v and next() makes it None, and both calls raise StopIteration.
C4_SendProtocol ==
    /\ (mg.op = "send" /\ mg.prepc = "created" /\ mg.arg = PyNone) =>
           (mg.out = Yield(PyInt(1)) /\ mg.it.pc = "yield 1")
    /\ (mg.op = "send" /\ mg.prepc = "created" /\ mg.arg # PyNone) =>
           (mg.out.kind = "raise" /\ mg.out # StopIteration /\ mg.it = my_generator)
    /\ (mg.op = "send" /\ mg.prepc = "yield 1") =>
           (mg.it.received = mg.arg /\ mg.out = StopIteration /\ mg.it.pc = "done")
    /\ (mg.op = "next" /\ mg.prepc = "yield 1") =>
           (mg.it.received = PyNone /\ mg.out = StopIteration /\ mg.it.pc = "done")

\* 'hello!' was sent to the generator paused at its yield
C4_Witness ==
    /\ mg.op = "send"
    /\ mg.prepc = "yield 1"
    /\ mg.arg = PyStr("hello!")
    /\ mg.it.received = PyStr("hello!")

\* what the sends of wave_modulating give while none of them raised TypeError:
\* None first, then the output of step k-1 for the amplitude of the k-th
\* following send, then StopIteration from send number steps+2
WaveModulatingSends ==
    ~wm.typeerr =>
        /\ wm.nsends = 1 => wm.out = Yield(PyNone)
        /\ (2 <= wm.nsends /\ wm.nsends <= wm.it.steps + 1) =>
               wm.out = Yield(PyInt(wm.arg.n * fraction(wm.nsends - 2, wm.it.steps)))
        /\ wm.nsends = wm.it.steps + 2 => wm.out = StopIteration

\* C5 as stated, for every steps: the first send (None) returns None, the k-th
\* following send (k = 1..steps) returns the output of step k-1 computed with
\* the amplitude of that send, and send number steps+2 raises StopIteration.
C5_AnySteps == WaveModulatingSends

\* C5 amended: the same for steps >= 1 (wave_modulating(0) divides by zero
\* in step_size on its first resumption).
C5_PositiveSteps == wm.it.steps >= 1 => WaveModulatingSends

\* wave_modulating(12) took its 13 sends and the 14th raised StopIteration
C5_Witness ==
    /\ wm.it.steps = ModulatingSteps
    /\ ~wm.typeerr
    /\ wm.nsends = ModulatingSteps + 2
    /\ wm.out = StopIteration
\* the delegation that gives the i-th output of complex_wave_cascading, and the
\* step of that output inside it
NthOfOutput(i) == IF i <= 3 THEN 1 ELSE IF i <= 7 THEN 2 ELSE 3
StepOfOutput(i) == IF i <= 3 THEN i - 1 ELSE IF i <= 7 THEN i - 4 ELSE i - 8

\* C6: the three wave_cascading generators of complex_wave_cascading share one
\* amplitude iterator: as many amplitudes are consumed as outputs were given,
\* the i-th output is computed from the i-th amplitude (each generator going on
\* where the one before it stopped), and the generator ends after 12 outputs
\* with exactly 12 amplitudes consumed (unless the amplitudes ran out first,
\* which raises RuntimeError).
C6_SharedAmplitudes ==
    /\ cw.amplitude_it.pos = Len(cw.outputs)
    /\ Len(cw.outputs) <= 12
    /\ \A i \in 1..Len(cw.outputs) :
          cw.outputs[i] = cw.amplitude_it.list[i]
                            * fraction(StepOfOutput(i), CascadingSteps[NthOfOutput(i)])
    /\ (cw.out = StopIteration /\ ~cw.failed) =>
           (Len(cw.outputs) = 12 /\ cw.amplitude_it.pos = 12)

\* run_cascading's 12 amplitudes gave 12 outputs and the generator returned
C6_Witness ==
    /\ cw.amplitude_it.list = run_cascading_amplitudes
    /\ Len(cw.outputs) = 12
    /\ cw.amplitude_it.pos = 12
    /\ cw.out = StopIteration
    /\ ~cw.failed
\* the calls of the Item 35 snippets: next, next, throw
NextNextThrow == <<"next", "next", "throw">>

\* C7: my_generator with try/except MyError around `yield 2`: after two next()
\* (1 and 2 yielded) throw(MyError) is caught in the generator, `yield 3` of the
\* else clause is skipped, the throw returns 4, and the next() after it raises
\* StopIteration.
C7_ThrowCaught ==
    IsPrefix(NextNextThrow, gt.calls) =>
        /\ gt.it.printed
        /\ IsPrefix(<<1, 2, 4>>, gt.yielded)
        /\ \A i \in 1..Len(gt.yielded) : gt.yielded[i] # 3
        /\ gt.calls = NextNextThrow => (gt.out = Yield(PyInt(4)) /\ gt.it.pc = "yield 4")
        /\ gt.calls = Append(NextNextThrow, "next") =>
               (gt.out = StopIteration /\ gt.it.pc = "done")

\* next, next, throw, next were called on the generator with the try
C7_Witness ==
    /\ gt.calls = Append(NextNextThrow, "next")
    /\ gt.yielded = <<1, 2, 4>>
    /\ gt.out = StopIteration

\* C8: my_generator that yields 1, 2, 3 and handles nothing: throw(MyError)
\* after two next() raises MyError to the caller, 3 is never yielded, and the
\* generator is finished (every later next() raises StopIteration).
C8_ThrowPropagates ==
    IsPrefix(NextNextThrow, gp.calls) =>
        /\ gp.yielded = <<1, 2>>
        /\ gp.it.pc = "done"
        /\ gp.calls = NextNextThrow => gp.out = Raise("MyError")
        /\ (Len(gp.calls) > 3 /\ gp.calls[Len(gp.calls)] = "next") =>
               gp.out = StopIteration

\* next, next, throw, next were called on the generator without a handler
C8_Witness ==
    /\ gp.calls = Append(NextNextThrow, "next")
    /\ gp.yielded = <<1, 2>>
    /\ gp.out = StopIteration

\* 5.0 four times, 0 three times, 3.0 two times, in tenths
AnimationDeltas == <<50, 50, 50, 50, 0, 0, 0, 30, 30>>

\* a nested generator is called only once the one before it is exhausted
Drained(g) ==
    \A k \in 1..2 : g.nested[k + 1].pc # "uncalled" => g.nested[k].pc = "done"

\* C9: animate_composed yields the same deltas in the same order as animate:
\* 5.0 four times, 0 three times, 3.0 two times, each nested generator drained
\* before the next one is started.
C9_ComposedSameAsManual ==
    /\ \A i \in 1..Len(an.deltas) : i <= Len(ac.deltas) => an.deltas[i] = ac.deltas[i]
    /\ IsPrefix(ac.deltas, AnimationDeltas)
    /\ ac.out = StopIteration => ac.deltas = AnimationDeltas
    /\ an.out = StopIteration => an.deltas = AnimationDeltas
    /\ Drained(an.it)
    /\ Drained(ac.it)

\* both animations were run to their end
C9_Witness ==
    /\ an.out = StopIteration
    /\ ac.out = StopIteration
    /\ Len(ac.deltas) = 9
    /\ an.deltas = ac.deltas

RECURSIVE SumOf(_)
\* the sum of a sequence of numbers
SumOf(q) == IF Len(q) = 0 THEN 0 ELSE q[1] + SumOf(Tail(q))

\* C10: an iterator gives its results once: the second list(it) over a
\* read_visits generator is empty and raises nothing, whatever the numbers of
\* the file, and normalize(it) returns an empty list because sum() has
\* exhausted the generator before the for loop takes its first value.
C10_IteratorOnce ==
    /\ lt.second = <<>>
    /\ lt.pc # "first" => (lt.first = visits(my_numbers) /\ lt.heap[1].pc = "done")
    /\ (nz.numbers.kind = "iterator" /\ nz.pc # "sum") =>
           /\ nz.pc \in {"for", "returned"}
           /\ nz.heap[nz.numbers.ref].pc = "done"
           /\ nz.iterating = nz.numbers.ref
           /\ nz.total = SumOf(visits(my_numbers))
           /\ nz.result = <<>>

\* both list(it) calls and normalize(it) are over, on a file of numbers
C10_Witness ==
    /\ Len(my_numbers) >= 2
    /\ lt.pc = "end"
    /\ Len(lt.first) >= 2
    /\ nz.numbers.kind = "iterator"
    /\ nz.pc = "returned"
    /\ nz.total > 0
    /\ nz.result = <<>>

\* C11: every call of ReadVisits.__iter__ makes a new iterator, and the
\* iterators of one ReadVisits advance independently: however the next() calls
\* on them interleave, each yields the numbers of the file in file order, all of
\* them by the time it is exhausted.
C11_IndependentIterators ==
    /\ \A j, k \in 1..Len(ri.its) : j # k => ri.its[j] # ri.its[k]
    /\ \A k \in 1..Len(ri.its) :
          /\ IsPrefix(ri.yielded[k], visits(my_numbers))
          /\ Len(ri.yielded[k]) = ri.heap[ri.its[k]].pos
          /\ ri.heap[ri.its[k]].pc = "done" => ri.yielded[k] = visits(my_numbers)

\* two iterators of one ReadVisits, one exhausted while the other is part-way
C11_Witness ==
    /\ Len(my_numbers) >= 2
    /\ Len(ri.its) = 2
    /\ ri.heap[ri.its[1]].pc = "done"
    /\ ri.yielded[1] = visits(my_numbers)
    /\ Len(ri.yielded[2]) = 1

\* a call that is over: returned or raised
Over(f) == f.pc \in {"returned", "TypeError", "ZeroDivisionError"}

\* C12: normalize_defensive raises TypeError exactly when its argument is an
\* iterator, and before any element of it is consumed; for a list or a
\* ReadVisits it ends as normalize does, with the same result; and the check
\* `iter(numbers) is numbers` answers as isinstance(numbers, Iterator) does.
C12_DefensiveRejectsIterators ==
    item = "defensive" =>
        /\ nd.pc = "called" =>
               iter_is_numbers(nd.heap, nd.numbers).is = isinstance_Iterator(nd.numbers)
        /\ nd.pc # "called" =>
               (nd.pc = "TypeError" <=> nd.numbers.kind \in {"iterator", "list_iterator"})
        /\ nd.pc = "TypeError" =>
               (nd.heap[nd.numbers.ref].pc = "created" /\ nd.heap[nd.numbers.ref].pos = 0)
        /\ (nd.numbers.kind \in {"list", "ReadVisits"} /\ Over(nd) /\ Over(nz)) =>
               (nd.pc = nz.pc /\ nd.result = nz.result)

\* iter(visits) of three numbers was refused, by the isinstance version, untouched
C12_Witness ==
    /\ item = "defensive"
    /\ nd.version = 2
    /\ nd.numbers.kind = "list_iterator"
    /\ Len(my_numbers) = 3
    /\ nd.pc = "TypeError"
    /\ nd.heap[1].pos = 0

\* both generators over the text have run to their end
IndexDone == item = "index" /\ ix.words.pc = "done" /\ ix.file.pc = "done"

\* a newline with more text after it
InnerNewline(text) == \E i \in 1..(Len(text) - 1) : text[i] = "\n"

\* the text with every newline that has text after it replaced by a space
Unwrapped(text) ==
    [i \in 1..Len(text) |-> IF text[i] = "\n" /\ i < Len(text) THEN " " ELSE text[i]]

IsQuotient(v, a, b) == v.t = "float" /\ v.den > 0 /\ v.num * b = a * v.den

\* C14: the careful_divide that raises never returns None: it raises ValueError
\* exactly when b is zero and otherwise returns the quotient; the two earlier
\* definitions return None, respectively (False, None), when b is zero.
C14_RaisesInsteadOfNone ==
    (item = "divide" /\ dv.pc = "over") =>
        /\ dv.def = 3 =>
              /\ dv.out.kind = "raise" <=> dv.b = 0
              /\ dv.out.kind = "raise" => dv.out.exc = "ValueError"
              /\ dv.out.kind # "raise" =>
                     (dv.out.kind = "return" /\ IsQuotient(dv.out.val, dv.a, dv.b))
        /\ dv.def = 1 =>
              /\ dv.out.kind = "return"
              /\ dv.b = 0 => dv.out.val.t = "None"
              /\ dv.b # 0 => IsQuotient(dv.out.val, dv.a, dv.b)
        /\ dv.def = 2 =>
              /\ dv.out.kind = "return"
              /\ dv.out.val.t = "tuple"
              /\ dv.out.val.first.b = (dv.b # 0)
              /\ dv.b = 0 => dv.out.val.second.t = "None"
              /\ dv.b # 0 => IsQuotient(dv.out.val.second, dv.a, dv.b)

\* a division by zero under the third definition, ended with ValueError
C14_Witness ==
    /\ item = "divide"
    /\ dv.def = 3
    /\ dv.a = 1
    /\ dv.b = 0
    /\ dv.pc = "over"
    /\ dv.out = Raise("ValueError")

\* C15: each Item block is self-contained: run top to bottom, no item reads a
\* name (variable, function, class or import) that its own block has not bound.
C15_ItemsSelfContained == item = "script" => sc.foreign = {}

====
